---- MODULE Spec2Model ----
(***************************************************************************)
(* A model of the indexing, caching and lazy-loading engine:               *)
(*   RegexCache   (src/lib/user-settings.js, lines 250-349)                *)
(*   SiteIndexes  (src/unnamed/part_004,     lines 224-422)                *)
(*   ChunkLoader  (src/unnamed/part_003)                                   *)
(* JavaScript maps are functions with a finite domain, a Map whose         *)
(* insertion order is read by the code is a sequence of pairs, and every   *)
(* `await` is a point where another handler may run.                       *)
(***************************************************************************)
EXTENDS Integers, Sequences, FiniteSets, TLC

VARIABLES
  cache,            \* RegexCache.cache: key -> compiled matcher
  matchResults,     \* RegexCache.matchResults: sequence of <<key, result>>, insertion order
  maxCacheSize,     \* RegexCache.maxCacheSize
  lastTest,         \* the last regexCache.test call: its arguments and what it returned
  lastCompile,      \* the last regexCache.compile call since the caches were last cleared
  domainMap,        \* SiteIndexes.domainMap: domain -> config
  groupMap,         \* SiteIndexes.groupMap: domain -> group (site) name
  groupConfigs,     \* SiteIndexes.groupConfigs: group name -> shared config
  botUserAgents,    \* SiteIndexes.botUserAgents
  cookieRules,      \* SiteIndexes.cookieRules
  blockRules,       \* SiteIndexes.blockRules: domain -> sequence of compiled matchers
  totalSites,       \* SiteIndexes.totalSites
  indexedDomains,   \* SiteIndexes.indexedDomains
  lastBuild,        \* the catalog of the last buildIndexes call; <<>> once the index
                    \* or the caches have been cleared since
  hasWindow,        \* the host context: TRUE in a page, FALSE in a worker (no `window`)
  chunkManifest,    \* ChunkLoader.chunkManifest: chunk name -> [file, domains]
  siteToChunkMap,   \* ChunkLoader.siteToChunkMap: domain -> chunk name
  loadedChunks,     \* ChunkLoader.loadedChunks
  loading,          \* ChunkLoader.loading: chunk name -> the load whose promise is stored
  loads,            \* every loadChunk invocation so far, with its position
  calls,            \* every ensureChunkLoaded invocation so far, with its position
  bpcInitialized,   \* background-init.js: the flag initializeBPC sets when it completes
  lastInit,         \* the last initializeBPC call: whether it ran and whether it threw
  headerEngine,     \* the global headerEngine: whether it exists, and its rules
  lastApply,        \* the last applyHeaderModifications call: arguments and outcome
  visitCounts,      \* UsageLearner.visitCounts: domain -> count
  promotedSites,    \* UsageLearner.promotedSites
  enabled,          \* UsageLearner.enabled
  storage,          \* ext_api.storage.local: the keys usageData and promotedSites
  tasks,            \* learner calls suspended at an await, in the order they suspended
  finished,         \* the learner call that was over last
  tracked,          \* domain -> the trackVisit calls that counted, since the counts
                    \* were last replaced or cleared
  writeFailed,      \* whether the store has rejected a write of the learner
  userSettings,     \* ext_api.storage.sync: the value under the key userSettings
  dynamicRules,     \* declarativeNetRequest dynamic rules: id -> regexSubstitution
  setups,           \* the setupMediumRedirect invocations, in the order they started
  updates           \* the updateDynamicRules requests in flight, oldest first

cacheVars  == <<cache, matchResults, maxCacheSize, lastTest, lastCompile>>
indexVars  == <<domainMap, groupMap, groupConfigs, botUserAgents, cookieRules,
                blockRules, totalSites, indexedDomains, lastBuild>>
loaderVars == <<hasWindow, chunkManifest, siteToChunkMap,
                loadedChunks, loading, loads, calls>>
headerVars  == <<bpcInitialized, lastInit, headerEngine, lastApply>>
learnerVars == <<visitCounts, promotedSites, enabled, storage, tasks,
                 finished, tracked, writeFailed>>
redirectVars == <<userSettings, dynamicRules, setups, updates>>
vars == <<cacheVars, indexVars, loaderVars, headerVars, learnerVars, redirectVars>>

----------------------------------------------------------------------------
(* Maps *)

EmptyMap == [k \in {} |-> TRUE]

MapSet(m, k, v) == [x \in (DOMAIN m) \cup {k} |-> IF x = k THEN v ELSE m[x]]

MapDelete(m, k) == [x \in (DOMAIN m) \ {k} |-> m[x]]

----------------------------------------------------------------------------
(* Patterns, URLs and what a compiled RegExp answers *)

\* A pattern specification handed to the cache: a string, a RegExp object,
\* or nothing (undefined, null, the empty string).  obj tells RegExp objects
\* of one source and one set of flags apart; a string has no identity (0).
StrPattern(s)         == [kind |-> "string", source |-> s, flags |-> "", obj |-> 0]
RegExpObject(s, f, o) == [kind |-> "regexp", source |-> s, flags |-> f, obj |-> o]
RePattern(s, f)       == RegExpObject(s, f, 1)
NoPattern             == [kind |-> "none", source |-> "", flags |-> "", obj |-> 0]

\* A compiled matcher is a RegExp object: its source, its flags and which
\* object it is.  The object compile makes from a string is object 0 of its
\* source: compile makes it once and hands out the cached one from then on.
Matcher(s, f) == [source |-> s, flags |-> f, obj |-> 0]
Null == [source |-> "", flags |-> "null", obj |-> 0]

\* The RegExp object p itself, stored as a matcher.
MatcherOf(p) == [source |-> p.source, flags |-> p.flags, obj |-> p.obj]

\* A matcher handed back to the cache as a pattern (it is a RegExp object).
PatternOf(m) == RegExpObject(m.source, m.flags, m.obj)

Sources == {"a", "ai", "("}
Urls == {"a", "A", "ai", "b"}
Patterns == {StrPattern(s) : s \in Sources \cup {""}}
              \cup {RePattern("a", ""), RePattern("a", "i")}

\* The patterns handed to compile directly: a second RegExp object /a/ too.
CompilePatterns == Patterns \cup {RegExpObject("a", "", 2)}

\* A RegExp constructor that accepts every source.
ValidSourceAlways(s) == TRUE

\* new RegExp(source) throws a SyntaxError for an unbalanced parenthesis.
ValidSource(s) == s # "("

\* String.prototype.toLowerCase on the URLs of the model.
Lower(u) == IF u = "A" THEN "a" ELSE u

\* Whether the literal text s occurs in u.
Occurs(s, u) ==
  \/ s = u
  \/ s = "a" /\ u = "ai"

\* RegExp.prototype.test for a literal source: a substring search, folded to
\* one case under the i flag.
RegExpTest(m, u) ==
  IF m.flags = "i" THEN Occurs(Lower(m.source), Lower(u)) ELSE Occurs(m.source, u)

----------------------------------------------------------------------------
(* RegexCache *)

MaxBound == 2
DefaultMaxCacheSize == 1000

\* The key under which compile stores a pattern.
CompileKey(p) == IF p.kind = "regexp" THEN p.source \o p.flags ELSE p.source

\* A compile that stores the RegExp object it is handed over the cached one.
CompileOverwrites(c, p) ==
  IF p.kind = "none" \/ (p.kind = "string" /\ p.source = "")
  THEN [cache |-> c, ret |-> Null]
  ELSE IF p.kind = "regexp"
  THEN [cache |-> MapSet(c, CompileKey(p), MatcherOf(p)), ret |-> MatcherOf(p)]
  ELSE IF p.source \in DOMAIN c
  THEN [cache |-> c, ret |-> c[p.source]]
  ELSE IF ValidSource(p.source)
  THEN [cache |-> MapSet(c, p.source, Matcher(p.source, "")), ret |-> Matcher(p.source, "")]
  ELSE [cache |-> c, ret |-> Null]

\* compile(pattern): the cache afterwards and the value returned (Null for null).
Compile(c, p) ==
  IF p.kind = "none" \/ (p.kind = "string" /\ p.source = "")
  THEN [cache |-> c, ret |-> Null]
  ELSE IF p.kind = "regexp"
  THEN LET key == CompileKey(p)
           c2  == IF key \in DOMAIN c THEN c ELSE MapSet(c, key, MatcherOf(p))
       IN  [cache |-> c2, ret |-> c2[key]]
  ELSE IF p.source \in DOMAIN c
  THEN [cache |-> c, ret |-> c[p.source]]
  ELSE IF ValidSource(p.source)
  THEN [cache |-> MapSet(c, p.source, Matcher(p.source, "")), ret |-> Matcher(p.source, "")]
  ELSE [cache |-> c, ret |-> Null]

\* The key of the result cache: `${compiled.source}::${url}`.
ResultKey(m, u) == m.source \o "::" \o u

ResultHas(mr, k) == \E i \in DOMAIN mr : mr[i][1] = k

ResultGet(mr, k) == mr[CHOOSE i \in DOMAIN mr : mr[i][1] = k][2]

\* An eviction that deletes the key inserted last instead of the first.
EvictNewest(mr, max) ==
  IF Len(mr) >= max /\ Len(mr) > 0 THEN SubSeq(mr, 1, Len(mr) - 1) ELSE mr

\* The eviction before an insertion: the first key of the Map is deleted when
\* the Map holds maxCacheSize entries or more.
Evict(mr, max) == IF Len(mr) >= max /\ Len(mr) > 0 THEN Tail(mr) ELSE mr

\* test(pattern, url): both caches afterwards, the matcher compile gave, the
\* value returned, whether the call inserted a result, and the key it evicted
\* ("" when it evicted none).
Test(c, mr, max, p, u) ==
  LET comp == Compile(c, p)
      key  == ResultKey(comp.ret, u)
  IN  IF comp.ret = Null
      THEN [cache |-> comp.cache, matchResults |-> mr, compiled |-> Null, ret |-> FALSE,
            inserted |-> FALSE, evicted |-> ""]
      ELSE IF ResultHas(mr, key)
      THEN [cache |-> comp.cache, matchResults |-> mr, compiled |-> comp.ret,
            ret |-> ResultGet(mr, key), inserted |-> FALSE, evicted |-> ""]
      ELSE LET result == RegExpTest(comp.ret, u)
           IN  [cache |-> comp.cache,
                matchResults |-> Append(Evict(mr, max), <<key, result>>),
                compiled |-> comp.ret, ret |-> result, inserted |-> TRUE,
                evicted |-> IF Len(mr) >= max /\ Len(mr) > 0 THEN Head(mr)[1] ELSE ""]

NoTest == [called |-> FALSE, pattern |-> NoPattern, url |-> "", compiled |-> Null,
           ret |-> FALSE, inserted |-> FALSE, evicted |-> ""]

NoCompile == [called |-> FALSE, pattern |-> NoPattern, ret |-> Null]

CompileOp(p) ==
  /\ cache' = Compile(cache, p).cache
  /\ lastCompile' = [called |-> TRUE, pattern |-> p, ret |-> Compile(cache, p).ret]
  /\ UNCHANGED <<matchResults, maxCacheSize, lastTest, indexVars, loaderVars, headerVars, learnerVars, redirectVars>>

TestOp(p, u) ==
  LET t == Test(cache, matchResults, maxCacheSize, p, u)
  IN  /\ cache' = t.cache
      /\ matchResults' = t.matchResults
      /\ lastTest' = [called |-> TRUE, pattern |-> p, url |-> u, compiled |-> t.compiled,
                      ret |-> t.ret, inserted |-> t.inserted, evicted |-> t.evicted]
      /\ UNCHANGED <<maxCacheSize, lastCompile, indexVars, loaderVars, headerVars, learnerVars, redirectVars>>

\* A clearMatchCache that drops the compiled matchers as well.
ClearMatchCacheDropsCompiled ==
  /\ matchResults' = <<>>
  /\ cache' = EmptyMap
  /\ UNCHANGED <<maxCacheSize, lastTest, lastCompile, indexVars, loaderVars, headerVars, learnerVars, redirectVars>>

\* clearMatchCache()
ClearMatchCache ==
  /\ matchResults' = <<>>
  /\ UNCHANGED <<cache, maxCacheSize, lastTest, lastCompile, indexVars, loaderVars, headerVars, learnerVars, redirectVars>>

ClearAll ==
  /\ cache' = EmptyMap
  /\ matchResults' = <<>>
  /\ lastCompile' = NoCompile
  /\ lastBuild' = <<>>
  /\ UNCHANGED <<maxCacheSize, lastTest, domainMap, groupMap, groupConfigs, botUserAgents,
                 cookieRules, blockRules, totalSites, indexedDomains, loaderVars, headerVars, learnerVars, redirectVars>>


----------------------------------------------------------------------------
(* SiteIndexes *)

\* A catalog entry. An absent string field is "", an absent group is <<>> and a
\* declared group is <<the sequence of its domains>>.
Config(domain, group, useragent, block_regex) ==
  [domain |-> domain, group |-> group, useragent |-> useragent,
   block_regex |-> block_regex,
   allow_cookies |-> FALSE, remove_cookies |-> FALSE,
   remove_cookies_select_hold |-> "", remove_cookies_select_drop |-> "",
   referer |-> "", random_ip |-> ""]

\* The state of the index together with the compiled-pattern cache it fills.
IndexState ==
  [domainMap |-> domainMap, groupMap |-> groupMap, groupConfigs |-> groupConfigs,
   botUserAgents |-> botUserAgents, cookieRules |-> cookieRules,
   blockRules |-> blockRules, totalSites |-> totalSites,
   indexedDomains |-> indexedDomains, cache |-> cache]

NoCookieRule == [type |-> "", selectHold |-> "", selectDrop |-> ""]

CookieRuleOf(rules, d) == IF d \in DOMAIN rules THEN rules[d] ELSE NoCookieRule

\* The body of the loop of indexFeatures for one domain.
IndexDomainFeatures(st, config, d) ==
  LET ua == IF config.useragent # ""
            THEN MapSet(st.botUserAgents, d, config.useragent)
            ELSE st.botUserAgents
      ck1 == IF config.allow_cookies
             THEN MapSet(st.cookieRules, d, [NoCookieRule EXCEPT !.type = "allow"])
             ELSE IF config.remove_cookies
             THEN MapSet(st.cookieRules, d, [NoCookieRule EXCEPT !.type = "remove"])
             ELSE st.cookieRules
      ck2 == IF config.remove_cookies_select_hold # ""
             THEN MapSet(ck1, d, [CookieRuleOf(ck1, d) EXCEPT
                                    !.selectHold = config.remove_cookies_select_hold])
             ELSE ck1
      ck3 == IF config.remove_cookies_select_drop # ""
             THEN MapSet(ck2, d, [CookieRuleOf(ck2, d) EXCEPT
                                    !.selectDrop = config.remove_cookies_select_drop])
             ELSE ck2
      truthy == config.block_regex.kind = "regexp"
                  \/ (config.block_regex.kind = "string" /\ config.block_regex.source # "")
      comp == Compile(st.cache, config.block_regex)
      existing == IF d \in DOMAIN st.blockRules THEN st.blockRules[d] ELSE <<>>
  IN  [st EXCEPT
         !.botUserAgents = ua,
         !.cookieRules = ck3,
         !.cache = IF truthy THEN comp.cache ELSE @,
         !.blockRules = IF truthy /\ comp.ret # Null
                        THEN MapSet(@, d, Append(existing, comp.ret))
                        ELSE @]

RECURSIVE IndexFeaturesLoop(_, _, _)
IndexFeaturesLoop(st, config, domains) ==
  IF domains = <<>> THEN st
  ELSE IndexFeaturesLoop(IndexDomainFeatures(st, config, Head(domains)), config,
                         Tail(domains))

\* indexFeatures(config)
IndexFeatures(st, config) ==
  IF config.domain = "" THEN st
  ELSE IndexFeaturesLoop(st, config,
                         IF config.group # <<>> THEN config.group[1] ELSE <<config.domain>>)

\* String.prototype.startsWith('#') on the domains of the model.
StartsWithHash(d) == d \in {"#meta", "###_group"}

\* A group registration that replaces the group mapping instead of adding to it.
RegisterGroupReplaces(st, siteName, domains) ==
  [st EXCEPT !.groupMap = [d \in {domains[i] : i \in DOMAIN domains} |-> siteName],
             !.indexedDomains = @ \cup {domains[i] : i \in DOMAIN domains}]

RECURSIVE RegisterGroup(_, _, _)
RegisterGroup(st, siteName, domains) ==
  IF domains = <<>> THEN st
  ELSE RegisterGroup([st EXCEPT !.groupMap = MapSet(@, Head(domains), siteName),
                                !.indexedDomains = @ \cup {Head(domains)}],
                     siteName, Tail(domains))

\* A loop body that registers the members of a group and forgets to store the
\* shared entry.
IndexEntryDropsGroupConfig(st, siteName, config) ==
  IF config.domain # "" /\ StartsWithHash(config.domain) THEN st
  ELSE LET registered ==
             IF config.group # <<>>
             THEN [RegisterGroup(st, siteName, config.group[1]) EXCEPT
                     !.totalSites = @ + Len(config.group[1])]
             ELSE IF config.domain # ""
             THEN [st EXCEPT !.domainMap = MapSet(@, config.domain, config),
                             !.indexedDomains = @ \cup {config.domain},
                             !.totalSites = @ + 1]
             ELSE st
       IN  IndexFeatures(registered, config)

\* The body of the loop of buildIndexes for one entry of the catalog.
IndexEntry(st, siteName, config) ==
  IF config.domain # "" /\ StartsWithHash(config.domain) THEN st
  ELSE LET registered ==
             IF config.group # <<>>
             THEN [RegisterGroup(st, siteName, config.group[1]) EXCEPT
                     !.groupConfigs = MapSet(@, siteName, config),
                     !.totalSites = @ + Len(config.group[1])]
             ELSE IF config.domain # ""
             THEN [st EXCEPT !.domainMap = MapSet(@, config.domain, config),
                             !.indexedDomains = @ \cup {config.domain},
                             !.totalSites = @ + 1]
             ELSE st
       IN  IndexFeatures(registered, config)

\* buildIndexes(siteConfigs): the catalog is the sequence Object.entries yields.
RECURSIVE BuildIndexes(_, _)
BuildIndexes(st, siteConfigs) ==
  IF siteConfigs = <<>> THEN st
  ELSE BuildIndexes(IndexEntry(st, Head(siteConfigs)[1], Head(siteConfigs)[2]),
                    Tail(siteConfigs))

\* A hasDomain that knows the directly mapped domains only.
HasDomainDirectOnly(d) == d \in DOMAIN domainMap

\* hasDomain(domain)
HasDomain(d) == d \in indexedDomains

\* What getSiteConfig returns for a domain it does not know (null), or for a
\* group name without a stored entry (undefined).
NoConfig == Config("", <<>>, "", NoPattern)

\* A getSiteConfig that looks the shared entry up under the domain instead of
\* the group name.
GetSiteConfigByDomain(d) ==
  IF d \in DOMAIN domainMap THEN domainMap[d]
  ELSE IF d \in DOMAIN groupMap
  THEN IF d \in DOMAIN groupConfigs THEN groupConfigs[d] ELSE NoConfig
  ELSE NoConfig

\* getSiteConfig(domain)
GetSiteConfig(d) ==
  IF d \in DOMAIN domainMap THEN domainMap[d]
  ELSE IF d \in DOMAIN groupMap
  THEN IF groupMap[d] \in DOMAIN groupConfigs THEN groupConfigs[groupMap[d]] ELSE NoConfig
  ELSE NoConfig

\* getBlockRules(domain): this.blockRules.get(domain) || []
RulesOf(br, d) == IF d \in DOMAIN br THEN br[d] ELSE <<>>

GetBlockRules(d) == RulesOf(blockRules, d)

\* A shouldBlockRequest that gives up on a domain with more than one rule.
BlockLoopSingleRule(c, mr, max, last, rules, u) ==
  IF Len(rules) # 1
  THEN [cache |-> c, matchResults |-> mr, lastTest |-> last, ret |-> FALSE]
  ELSE LET t == Test(c, mr, max, PatternOf(Head(rules)), u)
       IN  [cache |-> t.cache, matchResults |-> t.matchResults,
            lastTest |-> [called |-> TRUE, pattern |-> PatternOf(Head(rules)), url |-> u,
                          compiled |-> t.compiled, ret |-> t.ret,
                          inserted |-> t.inserted, evicted |-> t.evicted],
            ret |-> t.ret]

\* The loop of shouldBlockRequest over the rules of a domain: both caches
\* afterwards, the last test call made, and the value returned.
RECURSIVE BlockLoop(_, _, _, _, _, _)
BlockLoop(c, mr, max, last, rules, u) ==
  IF rules = <<>>
  THEN [cache |-> c, matchResults |-> mr, lastTest |-> last, ret |-> FALSE]
  ELSE LET t == Test(c, mr, max, PatternOf(Head(rules)), u)
           call == [called |-> TRUE, pattern |-> PatternOf(Head(rules)), url |-> u,
                    compiled |-> t.compiled, ret |-> t.ret, inserted |-> t.inserted,
                    evicted |-> t.evicted]
       IN  IF t.ret
           THEN [cache |-> t.cache, matchResults |-> t.matchResults, lastTest |-> call,
                 ret |-> TRUE]
           ELSE BlockLoop(t.cache, t.matchResults, max, call, Tail(rules), u)

\* What shouldBlockRequest(domain, url) returns with the caches c and mr and
\* the block rules br, and what it returns in the current state.
ShouldBlockIn(c, mr, max, br, d, u) == BlockLoop(c, mr, max, NoTest, RulesOf(br, d), u).ret

ShouldBlock(d, u) == ShouldBlockIn(cache, matchResults, maxCacheSize, blockRules, d, u)

\* What shouldBlockRequest(domain, url) returns in the state a step leads to.
ShouldBlockNext(d, u) ==
  ShouldBlockIn(cache', matchResults', maxCacheSize', blockRules', d, u)

\* The index variables after the call that left the index in state st.
SetIndex(st) ==
  /\ domainMap' = st.domainMap
  /\ groupMap' = st.groupMap
  /\ groupConfigs' = st.groupConfigs
  /\ botUserAgents' = st.botUserAgents
  /\ cookieRules' = st.cookieRules
  /\ blockRules' = st.blockRules
  /\ totalSites' = st.totalSites
  /\ indexedDomains' = st.indexedDomains
  /\ cache' = st.cache

\* The catalogs handed to buildIndexes: direct entries (one with a pattern that
\* does not compile, one with a cookie directive), a metadata entry, and
\* groups with no domain field, with one, and with a metadata marker.  No
\* domain is declared by two entries, and no two entries are equal.
News      == Config("n.com", <<>>, "googlebot", RePattern("a", ""))
Bad       == [Config("bad.com", <<>>, "", StrPattern("(")) EXCEPT !.remove_cookies = TRUE]
Mag       == Config("m.com", <<>>, "", RePattern("a", "i"))
Meta      == Config("#meta", <<>>, "googlebot", NoPattern)
Syndicate == Config("", << <<"g1.com", "g2.com">> >>, "bingbot", StrPattern("ai"))
Papers    == Config("###_group", << <<"c1.com", "c2.com">> >>, "", NoPattern)
Network   == [Config("net.com", << <<"x1.com", "x2.com">> >>, "googlebot", StrPattern("a"))
                EXCEPT !.allow_cookies = TRUE]

CoreCatalog ==
  << <<"News", News>>, <<"Bad", Bad>>, <<"Mag", Mag>>, <<"Meta", Meta>> >>

GroupCatalog ==
  << <<"Syndicate", Syndicate>>, <<"Papers", Papers>>, <<"Network", Network>> >>

Catalogs == {CoreCatalog, GroupCatalog}

IndexDomains ==
  {"n.com", "bad.com", "m.com", "#meta", "g1.com", "g2.com", "###_group", "c1.com",
   "c2.com", "net.com", "x1.com", "x2.com", "other.com"}

\* The domains asked about: one of each kind of entry, and an unknown one.
LookupDomains == {"n.com", "bad.com", "m.com", "g1.com", "x1.com", "other.com"}

\* The patterns handed to test directly next to the index: one that does not
\* compile and one that does.
DirectPatterns == {StrPattern("("), StrPattern("ai")}

\* buildIndexes is called while totalSites is below this count.
MaxTotalSites == 6

\* siteIndexes.buildIndexes(siteConfigs)
BuildIndexesOp(siteConfigs) ==
  /\ totalSites < MaxTotalSites
  /\ SetIndex(BuildIndexes(IndexState, siteConfigs))
  /\ lastBuild' = siteConfigs
  /\ UNCHANGED <<matchResults, maxCacheSize, lastTest, lastCompile, loaderVars, headerVars, learnerVars, redirectVars>>

\* siteIndexes.shouldBlockRequest(domain, url)
ShouldBlockRequest(d, u) ==
  LET b == BlockLoop(cache, matchResults, maxCacheSize, lastTest, GetBlockRules(d), u)
  IN  /\ cache' = b.cache
      /\ matchResults' = b.matchResults
      /\ lastTest' = b.lastTest
      /\ UNCHANGED <<maxCacheSize, lastCompile, indexVars, loaderVars, headerVars, learnerVars, redirectVars>>

\* A clear that empties the shared entries and keeps the group mapping.
ClearKeepsGroupMap ==
  /\ domainMap' = EmptyMap
  /\ groupConfigs' = EmptyMap
  /\ botUserAgents' = EmptyMap
  /\ cookieRules' = EmptyMap
  /\ blockRules' = EmptyMap
  /\ indexedDomains' = {}
  /\ totalSites' = 0
  /\ lastBuild' = <<>>
  /\ UNCHANGED <<groupMap, cacheVars, loaderVars, headerVars, learnerVars, redirectVars>>

\* siteIndexes.clear()
Clear ==
  /\ domainMap' = EmptyMap
  /\ groupMap' = EmptyMap
  /\ groupConfigs' = EmptyMap
  /\ botUserAgents' = EmptyMap
  /\ cookieRules' = EmptyMap
  /\ blockRules' = EmptyMap
  /\ indexedDomains' = {}
  /\ totalSites' = 0
  /\ lastBuild' = <<>>
  /\ UNCHANGED <<cacheVars, loaderVars, headerVars, learnerVars, redirectVars>>

----------------------------------------------------------------------------
(* ChunkLoader *)

MaxCalls == 2
MaxLoads == 2
DefaultRetries == 3
BackoffBaseMs == 100

Domains == {"a.in", "b.in"}

\* The manifest handed to init, and the catalog each chunk file defines.
Manifest ==
  [c \in {"india"} |-> [file |-> "chunks/india.js", domains |-> <<"a.in", "b.in">>]]

ChunkFile(file) ==
  IF file = "chunks/india.js"
  THEN << <<"A", Config("a.in", <<>>, "googlebot", RePattern("a", ""))>>,
          <<"B", Config("b.in", << <<"b.in">> >>, "", StrPattern("ai"))>> >>
  ELSE <<>>

RetryInputs == {0, 1, DefaultRetries}

PreloadInputs == {<<"india">>, <<"india", "india">>}

RECURSIVE MapDomains(_, _, _)
MapDomains(m, chunkName, domains) ==
  IF domains = <<>> THEN m
  ELSE MapDomains(MapSet(m, Head(domains), chunkName), chunkName, Tail(domains))

RECURSIVE MapChunks(_, _, _)
MapChunks(m, manifest, names) ==
  IF names = {} THEN m
  ELSE LET c == CHOOSE n \in names : TRUE
       IN  MapChunks(MapDomains(m, c, manifest[c].domains), manifest, names \ {c})

\* init(manifest)
LoaderInit ==
  /\ chunkManifest' = Manifest
  /\ siteToChunkMap' = MapChunks(siteToChunkMap, Manifest, DOMAIN Manifest)
  /\ UNCHANGED <<cacheVars, indexVars, hasWindow, loadedChunks, loading, loads, calls, headerVars, learnerVars, redirectVars>>

\* 2^n
RECURSIVE Pow2(_)
Pow2(n) == IF n = 0 THEN 1 ELSE 2 * Pow2(n - 1)

\* The delay of the retry timer after the failed attempt k.
Backoff(k) == BackoffBaseMs * Pow2(k)

\* loadChunk(chunkName, retries) up to its first await: an unknown chunk and an
\* empty retry loop return false at once, otherwise importScript is called.
StartLoad(chunkName, retries, by) ==
  LET runs == chunkName \in DOMAIN chunkManifest /\ 0 < retries
  IN  [chunk |-> chunkName, retries |-> retries, by |-> by, attempt |-> 0,
       pc |-> IF runs THEN "fetching" ELSE "done",
       result |-> IF runs THEN "none" ELSE "false",
       fetches |-> IF runs THEN 1 ELSE 0,
       waits |-> <<>>, merges |-> 0]

\* Catch with the last attempt tested as `attempt === retries`.
CatchOffByOne(ld) ==
  IF ld.attempt = ld.retries
  THEN [ld EXCEPT !.pc = "done", !.result = "false"]
  ELSE [ld EXCEPT !.pc = "backoff", !.waits = Append(@, Backoff(ld.attempt))]

\* Catch throwing the error again once the attempts are used up.
CatchRethrows(ld) ==
  IF ld.attempt = ld.retries - 1
  THEN [ld EXCEPT !.pc = "done", !.result = "raised"]
  ELSE [ld EXCEPT !.pc = "backoff", !.waits = Append(@, Backoff(ld.attempt))]

\* The catch block of loadChunk.
Catch(ld) ==
  IF ld.attempt = ld.retries - 1
  THEN [ld EXCEPT !.pc = "done", !.result = "false"]
  ELSE [ld EXCEPT !.pc = "backoff", !.waits = Append(@, Backoff(ld.attempt))]

\* ensureChunkLoaded without the test of the loaded set.
IsChunkLoadedNever(chunkName) == FALSE

\* ensureChunkLoaded without the test of the loading map.
IsLoadingNever(chunkName) == FALSE

\* isChunkLoaded(chunkName), the test of line 48
IsChunkLoaded(chunkName) == chunkName \in loadedChunks

\* this.loading.has(chunkName)
IsLoading(chunkName) == chunkName \in DOMAIN loading

\* ensureChunkLoaded(domain, retries) up to its first await or its return.
EnsureChunkLoaded(d, r) ==
  /\ Len(calls) < MaxCalls
  /\ LET call(exit, pc, result, load) ==
           [domain |-> d, exit |-> exit, pc |-> pc, result |-> result, load |-> load]
     IN  IF HasDomain(d)
         THEN /\ calls' = Append(calls, call("indexed", "done", "true", 0))
              /\ UNCHANGED <<loads, loading>>
         ELSE IF d \notin DOMAIN siteToChunkMap
         THEN /\ calls' = Append(calls, call("unmapped", "done", "false", 0))
              /\ UNCHANGED <<loads, loading>>
         ELSE IF IsChunkLoaded(siteToChunkMap[d])
         THEN /\ calls' = Append(calls, call("loaded", "done", "true", 0))
              /\ UNCHANGED <<loads, loading>>
         ELSE IF IsLoading(siteToChunkMap[d])
         THEN /\ calls' = Append(calls, call("joined", "await", "none",
                                              loading[siteToChunkMap[d]]))
              /\ UNCHANGED <<loads, loading>>
         ELSE /\ Len(loads) < MaxLoads
              /\ loads' = Append(loads, StartLoad(siteToChunkMap[d], r, "ensure"))
              /\ loading' = MapSet(loading, siteToChunkMap[d], Len(loads) + 1)
              /\ calls' = Append(calls, call("started", "await", "none", Len(loads) + 1))
  /\ UNCHANGED <<cacheVars, indexVars, hasWindow, chunkManifest, siteToChunkMap,
                 loadedChunks, headerVars, learnerVars, redirectVars>>

\* ensureChunkLoaded after its await: the result of the load is returned (a
\* rejection is raised again), and the call that stored the promise deletes it.
EnsureResume(i) ==
  /\ calls[i].pc = "await"
  /\ loads[calls[i].load].pc = "done"
  /\ calls' = [calls EXCEPT ![i].pc = "done", ![i].result = loads[calls[i].load].result]
  /\ loading' = IF calls[i].exit = "started"
                THEN MapDelete(loading, loads[calls[i].load].chunk)
                ELSE loading
  /\ UNCHANGED <<cacheVars, indexVars, hasWindow, chunkManifest, siteToChunkMap,
                 loadedChunks, loads, headerVars, learnerVars, redirectVars>>

\* importScript rejects: the catch block runs.
FetchFails(l) ==
  /\ loads[l].pc = "fetching"
  /\ loads' = [loads EXCEPT ![l] = Catch(loads[l])]
  /\ UNCHANGED <<cacheVars, indexVars, hasWindow, chunkManifest, siteToChunkMap,
                 loadedChunks, loading, calls, headerVars, learnerVars, redirectVars>>

\* importScript resolves: the chunk is marked loaded, then the catalog the
\* script left in window.loadedSiteChunk is merged and the global deleted.
\* Where there is no `window`, reading window.loadedSiteChunk throws a
\* ReferenceError, which the catch block receives.
FetchSucceeds(l) ==
  /\ loads[l].pc = "fetching"
  /\ loadedChunks' = loadedChunks \cup {loads[l].chunk}
  /\ IF hasWindow
     THEN /\ SetIndex(BuildIndexes(IndexState, ChunkFile(chunkManifest[loads[l].chunk].file)))
          /\ lastBuild' = ChunkFile(chunkManifest[loads[l].chunk].file)
          /\ loads' = [loads EXCEPT ![l].pc = "done", ![l].result = "true",
                                    ![l].merges = @ + 1]
     ELSE /\ loads' = [loads EXCEPT ![l] = Catch(loads[l])]
          /\ UNCHANGED <<indexVars, cache>>
  /\ UNCHANGED <<matchResults, maxCacheSize, lastTest, lastCompile, hasWindow, chunkManifest,
                 siteToChunkMap, loading, calls, headerVars, learnerVars, redirectVars>>

\* The retry timer fires: the loop goes on to the next attempt.
BackoffElapsed(l) ==
  /\ loads[l].pc = "backoff"
  /\ loads' = IF loads[l].attempt + 1 < loads[l].retries
              THEN [loads EXCEPT ![l].attempt = @ + 1, ![l].pc = "fetching",
                                 ![l].fetches = @ + 1]
              ELSE [loads EXCEPT ![l].attempt = @ + 1, ![l].pc = "done",
                                 ![l].result = "false"]
  /\ UNCHANGED <<cacheVars, indexVars, hasWindow, chunkManifest, siteToChunkMap,
                 loadedChunks, loading, calls, headerVars, learnerVars, redirectVars>>

RECURSIVE StartLoads(_, _)
StartLoads(ls, names) ==
  IF names = <<>> THEN ls
  ELSE StartLoads(Append(ls, StartLoad(Head(names), DefaultRetries, "preload")),
                  Tail(names))

\* preloadChunks(chunkNames): loadChunk is called for every name; the promise
\* of Promise.all is not stored and its result changes nothing.
PreloadChunks(names) ==
  /\ Len(loads) + Len(names) <= MaxLoads
  /\ loads' = StartLoads(loads, names)
  /\ UNCHANGED <<cacheVars, indexVars, hasWindow, chunkManifest, siteToChunkMap,
                 loadedChunks, loading, calls, headerVars, learnerVars, redirectVars>>

----------------------------------------------------------------------------
(* HeaderRuleEngine (lib/header-engine.js) and its caller in              *)
(* background-init.js                                                      *)

\* The names applyHeaders declares with `let` directly in its function body,
\* in source order: rule, modified = [...headers], modified = false.
ApplyHeadersLets == <<"rule", "modified", "modified">>

\* A block that declares one name twice with `let` is an early SyntaxError.
Redeclares(lets) == \E i, j \in DOMAIN lets : i # j /\ lets[i] = lets[j]

\* A script with an early error is rejected whole: none of its statements
\* runs, so neither the class nor the global instance comes to exist.
HeaderScriptParses == ~Redeclares(ApplyHeadersLets)

NoEngine        == [defined |-> FALSE, rules |-> EmptyMap]
NewHeaderEngine == [defined |-> TRUE, rules |-> EmptyMap]

\* A header of a request.
Header(name, value) == [name |-> name, value |-> value]

NoApply == [called |-> FALSE, afterInit |-> FALSE, domain |-> "", headers |-> <<>>,
            now |-> 0, raised |-> FALSE, result |-> <<>>]

NoInit == [called |-> FALSE, raised |-> FALSE]

\* The state once lib/header-engine.js and background-init.js were handed to
\* the host, before initializeBPC runs.
HeaderScriptLoaded ==
  /\ headerEngine = IF HeaderScriptParses THEN NewHeaderEngine ELSE NoEngine
  /\ lastApply = NoApply
  /\ bpcInitialized = FALSE
  /\ lastInit = NoInit

\* The userAgents table of buildRules; "" where the key is not in the table.
UserAgents(key, navigator_ua_mobile) ==
  CASE key = "googlebot" ->
         IF navigator_ua_mobile
         THEN "Chrome/115.0.5790.171 Mobile Safari/537.36 (compatible ; Googlebot/2.1 ; +http://www.google.com/bot.html)"
         ELSE "Mozilla/5.0 (compatible; Googlebot/2.1; +http://www.google.com/bot.html)"
    [] key = "bingbot" ->
         IF navigator_ua_mobile
         THEN "Chrome/115.0.5790.171 Mobile Safari/537.36 (compatible; bingbot/2.0; +http://www.bing.com/bingbot.htm)"
         ELSE "Mozilla/5.0 (compatible; bingbot/2.0; +http://www.bing.com/bingbot.htm)"
    [] key = "facebookbot" ->
         "facebookexternalhit/1.1 (+http://www.facebook.com/externalhit_uatext.php)"
    [] OTHER -> ""

\* generateIPPool(poolSize = 10): poolSize addresses of four octets, each
\* Math.floor(Math.random() * 255).  The pools the generator may draw are
\* represented by two of them.
PoolSize == 10
IPPools == { [i \in 1 .. PoolSize |-> <<10, 0, 0, i>>],
             [i \in 1 .. PoolSize |-> <<254, i, 0, 254>>] }

NoRule == [userAgent |-> "", referer |-> "", randomIP |-> <<>>]

\* The rule buildRules computes for one entry; an absent property is "" (or
\* <<>> for the pool).
BuildRule(config, navigator_ua_mobile, pool) ==
  [userAgent |-> IF config.useragent # ""
                 THEN UserAgents(config.useragent, navigator_ua_mobile)
                 ELSE "",
   referer   |-> config.referer,
   randomIP  |-> IF config.random_ip # "" THEN pool ELSE <<>>]

\* buildRules(siteIndexes, navigator_ua_mobile): a rule is stored for every
\* indexed domain whose entry yields one; rules stored before are kept.
\* indexed is siteIndexes.indexedDomains, configOf[d] what
\* siteIndexes.getSiteConfig(d) answers, pools[d] the pool generateIPPool
\* draws for d.
BuildRules(rules, indexed, configOf, navigator_ua_mobile, pools) ==
  LET ruled == {d \in indexed :
                  /\ configOf[d] # NoConfig
                  /\ BuildRule(configOf[d], navigator_ua_mobile, pools[d]) # NoRule}
  IN  [d \in (DOMAIN rules) \cup ruled |->
         IF d \in ruled
         THEN BuildRule(configOf[d], navigator_ua_mobile, pools[d])
         ELSE rules[d]]

\* String.prototype.toLowerCase on the header names of the requests.
HeaderLower(name) ==
  CASE name \in {"User-Agent", "USER-AGENT"}           -> "user-agent"
    [] name \in {"Referer", "REFERER"}                 -> "referer"
    [] name \in {"X-Forwarded-For", "X-FORWARDED-FOR"} -> "x-forwarded-for"
    [] name = "Accept"                                 -> "accept"
    [] OTHER                                           -> name

\* The address as the header carries it: the octets joined by dots.
Dotted(ip) ==
  ToString(ip[1]) \o "." \o ToString(ip[2]) \o "." \o ToString(ip[3]) \o "." \o ToString(ip[4])

\* applyHeaders(domain, headers) at Date.now() = now
ApplyHeaders(rules, domain, headers, now) ==
  IF domain \notin DOMAIN rules
  THEN headers
  ELSE LET rule == rules[domain]
           Keep(header) ==
             LET name == HeaderLower(header.name)
             IN  /\ ~(rule.userAgent # "" /\ name = "user-agent")
                 /\ ~(rule.referer # "" /\ name = "referer")
                 /\ ~(rule.randomIP # <<>> /\ name = "x-forwarded-for")
           kept == SelectSeq(headers, Keep)
           ua == IF rule.userAgent # ""
                 THEN <<Header("User-Agent", rule.userAgent)>> ELSE <<>>
           rf == IF rule.referer # ""
                 THEN <<Header("Referer", rule.referer)>> ELSE <<>>
           ip == IF rule.randomIP # <<>>
                 THEN <<Header("X-Forwarded-For",
                               Dotted(rule.randomIP[(now % Len(rule.randomIP)) + 1]))>>
                 ELSE <<>>
       IN  kept \o ua \o rf \o ip

\* hasRules(domain), asked of the global engine
HasRules(d) == headerEngine.defined /\ d \in DOMAIN headerEngine.rules

\* initializeBPC(): the index is built from the default catalog, then the
\* header rules from the index.  Where the global headerEngine does not exist
\* the second step throws a ReferenceError: the catch block logs it and
\* throws it on, with the index already built and bpcInitialized still false.
InitializeBPC(defaultSites, navigator_ua_mobile, pools) ==
  /\ ~bpcInitialized
  /\ totalSites < MaxTotalSites
  /\ SetIndex(BuildIndexes(IndexState, defaultSites))
  /\ lastBuild' = defaultSites
  /\ IF headerEngine.defined
     THEN /\ headerEngine' =
               [headerEngine EXCEPT
                  !.rules = BuildRules(headerEngine.rules, indexedDomains',
                                       [d \in indexedDomains' |-> GetSiteConfig(d)'],
                                       navigator_ua_mobile, pools)]
          /\ bpcInitialized' = TRUE
          /\ lastInit' = [called |-> TRUE, raised |-> FALSE]
     ELSE /\ lastInit' = [called |-> TRUE, raised |-> TRUE]
          /\ UNCHANGED <<headerEngine, bpcInitialized>>
  /\ UNCHANGED <<matchResults, maxCacheSize, lastTest, lastCompile, loaderVars,
                 lastApply, learnerVars, redirectVars>>

\* applyHeaderModifications(domain, headers) at Date.now() = now: the call
\* of headerEngine.applyHeaders, a ReferenceError where the global does not
\* exist.
ApplyHeaderModifications(domain, headers, now) ==
  /\ lastApply' =
       IF headerEngine.defined
       THEN [called |-> TRUE, afterInit |-> lastInit.called, domain |-> domain,
             headers |-> headers, now |-> now, raised |-> FALSE,
             result |-> ApplyHeaders(headerEngine.rules, domain, headers, now)]
       ELSE [called |-> TRUE, afterInit |-> lastInit.called, domain |-> domain,
             headers |-> headers, now |-> now, raised |-> TRUE, result |-> <<>>]
  /\ UNCHANGED <<cacheVars, indexVars, loaderVars, bpcInitialized, lastInit,
                 headerEngine, learnerVars, redirectVars>>

----------------------------------------------------------------------------
(* UsageLearner (lib/usage-learner.js) *)

LearnerDomains == {"n.com", "m.com"}

\* constructor(promotionThreshold = 5), as the global instance is made
DefaultPromotionThreshold == 5

\* The counts tracked in one run of the model stay within MaxVisits.
MaxVisits == 10

\* The calls suspended at one time stay within MaxTasks.
MaxTasks == 1

\* ext_api.storage.local restricted to the two keys of the learner; a key
\* that was never set is absent (has... FALSE).
NoStorage == [hasUsageData |-> FALSE, usageData |-> EmptyMap,
              hasPromotedSites |-> FALSE, promotedSites |-> {}]

\* A call of the learner: which method, where it is suspended, the domain and
\* the count of a trackVisit, what it did so far (promoted the domain, called
\* persist, had a write rejected, threw), and the object it waits for: the
\* answer of the store for init, the object handed to the store for a write.
NoCall == [op |-> "", pc |-> "", ok |-> TRUE, data |-> NoStorage, domain |-> "",
           count |-> 0, counted |-> FALSE, promoted |-> FALSE, persisted |-> FALSE,
           failed |-> FALSE, raised |-> FALSE]

\* new UsageLearner(), on a fresh installation
LearnerConstructed ==
  /\ visitCounts = EmptyMap
  /\ promotedSites = {}
  /\ enabled = TRUE
  /\ storage = NoStorage
  /\ tasks = <<>>
  /\ finished = NoCall
  /\ tracked = EmptyMap
  /\ writeFailed = FALSE

\* isPromoted(domain)
IsPromoted(d) == d \in promotedSites

\* this.visitCounts.get(domain) || 0
CountIn(counts, d) == IF d \in DOMAIN counts THEN counts[d] ELSE 0

\* getVisitCount(domain)
GetVisitCount(d) == CountIn(visitCounts, d)

\* storage.local.set({promotedSites: Array.from(promoted)}); a write that is
\* rejected leaves the store as it was (the caller logs the error).
StorePromoted(st, promoted, ok) ==
  IF ok
  THEN [st EXCEPT !.hasPromotedSites = TRUE, !.promotedSites = promoted]
  ELSE st

\* The store after the write persist() makes of counts and promoted.
StoreAll(st, counts, promoted, ok) ==
  IF ok
  THEN [hasUsageData |-> TRUE, usageData |-> counts,
        hasPromotedSites |-> TRUE, promotedSites |-> promoted]
  ELSE st

\* The object persist() hands to the store.
UsageObject(counts, promoted) ==
  [hasUsageData |-> TRUE, usageData |-> counts,
   hasPromotedSites |-> TRUE, promotedSites |-> promoted]

\* The object promoteToCore hands to the store.
PromotedObject(promoted) ==
  [NoStorage EXCEPT !.hasPromotedSites = TRUE, !.promotedSites = promoted]

\* A promotion that leaves the set as it is.
PromoteToCoreSkipsAdd(promoted, d) == promoted

\* promoteToCore(domain) up to its await: the promoted set after it.
PromoteToCore(promoted, d) == promoted \cup {d}

\* A count that is not raised by the visit that would take it to three.
NextCountSkipsThird(counts, d) ==
  IF CountIn(counts, d) = 2 THEN 2 ELSE CountIn(counts, d) + 1

\* (this.visitCounts.get(domain) || 0) + 1
NextCount(counts, d) == CountIn(counts, d) + 1

\* A persist on every fifth visit.
PersistDueEveryFifth(count) == count % 5 = 0

\* count % 10 === 0
PersistDue(count) == count % 10 = 0

\* A rejected write that is thrown on to the caller.
RejectedEscalates(call) == [call EXCEPT !.failed = TRUE, !.raised = TRUE]

\* The catch blocks of promoteToCore and persist: the error is logged.
Rejected(call) == [call EXCEPT !.failed = TRUE]

\* The calls of trackVisit(d) that counted, since the counts were last
\* replaced or cleared.
TrackedIn(t, d) == IF d \in DOMAIN t THEN t[d] ELSE 0

\* trackVisit(domain) up to its first await: nothing when learning is
\* disabled; otherwise the count is raised, and the domain is promoted when
\* the count has reached the threshold and it is not promoted yet, which
\* suspends the call at the write of promoteToCore; otherwise every tenth
\* visit calls persist and suspends at its write; otherwise the call is over.
TrackVisit(d) ==
  /\ GetVisitCount(d) < MaxVisits
  /\ IF ~enabled
     THEN /\ finished' = [NoCall EXCEPT !.op = "trackVisit", !.pc = "done", !.domain = d]
          /\ UNCHANGED <<visitCounts, promotedSites, tasks, tracked>>
     ELSE LET count == NextCount(visitCounts, d)
              counts == MapSet(visitCounts, d, count)
              promote == count >= DefaultPromotionThreshold /\ d \notin promotedSites
              promoted == IF promote THEN PromoteToCore(promotedSites, d)
                          ELSE promotedSites
              call == [NoCall EXCEPT !.op = "trackVisit", !.domain = d, !.count = count,
                                     !.counted = TRUE, !.promoted = promote]
          IN  /\ visitCounts' = counts
              /\ promotedSites' = promoted
              /\ tracked' = MapSet(tracked, d, TrackedIn(tracked, d) + 1)
              /\ IF promote
                 THEN /\ Len(tasks) < MaxTasks
                      /\ tasks' = Append(tasks, [call EXCEPT !.pc = "promote",
                                                   !.data = PromotedObject(promoted)])
                      /\ UNCHANGED finished
                 ELSE IF PersistDue(count)
                 THEN /\ Len(tasks) < MaxTasks
                      /\ tasks' = Append(tasks, [call EXCEPT !.pc = "persist",
                                                   !.persisted = TRUE,
                                                   !.data = UsageObject(counts, promoted)])
                      /\ UNCHANGED finished
                 ELSE /\ finished' = [call EXCEPT !.pc = "done"]
                      /\ UNCHANGED tasks
  /\ UNCHANGED <<enabled, storage, writeFailed, cacheVars, indexVars, loaderVars,
                 headerVars, redirectVars>>

\* The sequence without its i-th element.
Without(seq, i) ==
  [j \in 1 .. Len(seq) - 1 |-> IF j < i THEN seq[j] ELSE seq[j + 1]]

\* The store settles the writes in the order they were handed to it: the
\* trackVisit call that may go on is the one suspended longest.
FirstWrite(i) ==
  /\ i \in DOMAIN tasks
  /\ tasks[i].op = "trackVisit"
  /\ \A j \in 1 .. i - 1 : tasks[j].op # "trackVisit"

\* trackVisit from an await on.  The write it waited for is accepted or
\* rejected (ok); a rejection is caught and logged.  After the write of
\* promoteToCore a tenth visit calls persist, with the counts and the set as
\* they are by now, and suspends again; otherwise the call is over.
TrackResume(i, ok) ==
  /\ FirstWrite(i)
  /\ LET t == tasks[i]
         settled == IF ok THEN t ELSE Rejected(t)
     IN  /\ storage' = IF t.pc = "promote"
                       THEN StorePromoted(storage, t.data.promotedSites, ok)
                       ELSE StoreAll(storage, t.data.usageData, t.data.promotedSites, ok)
         /\ IF t.pc = "promote" /\ ~settled.raised /\ PersistDue(t.count)
            THEN /\ tasks' = Append(Without(tasks, i),
                                    [settled EXCEPT !.pc = "persist", !.persisted = TRUE,
                                       !.data = UsageObject(visitCounts, promotedSites)])
                 /\ UNCHANGED finished
            ELSE /\ tasks' = Without(tasks, i)
                 /\ finished' = [settled EXCEPT !.pc = "done", !.data = NoStorage]
  /\ writeFailed' = (writeFailed \/ ~ok)
  /\ UNCHANGED <<visitCounts, promotedSites, enabled, tracked,
                 cacheVars, indexVars, loaderVars, headerVars, redirectVars>>

\* init() up to its await: storage.local.get is issued and answers with the
\* store as it is now, or is rejected.
InitCall(ok) ==
  /\ Len(tasks) < MaxTasks
  /\ tasks' = Append(tasks, [NoCall EXCEPT !.op = "init", !.pc = "get", !.ok = ok,
                                !.data = IF ok THEN storage ELSE NoStorage])
  /\ UNCHANGED <<visitCounts, promotedSites, enabled, storage, finished, tracked,
                 writeFailed, cacheVars, indexVars, loaderVars, headerVars, redirectVars>>

\* init() from its await on: the counts and the promoted set are replaced by
\* the stored ones where the answer holds them; a rejected read is logged.
InitResume(i) ==
  /\ i \in DOMAIN tasks
  /\ tasks[i].op = "init"
  /\ LET t == tasks[i]
     IN  /\ visitCounts' =
               IF t.ok /\ t.data.hasUsageData THEN t.data.usageData ELSE visitCounts
         /\ promotedSites' =
               IF t.ok /\ t.data.hasPromotedSites
               THEN t.data.promotedSites ELSE promotedSites
         /\ tracked' = IF t.ok /\ t.data.hasUsageData THEN EmptyMap ELSE tracked
         /\ finished' = [t EXCEPT !.pc = "done", !.failed = ~t.ok, !.data = NoStorage]
  /\ tasks' = Without(tasks, i)
  /\ UNCHANGED <<enabled, storage, writeFailed, cacheVars, indexVars, loaderVars,
                 headerVars, redirectVars>>

\* persist(), called on its own
Persist(ok) ==
  /\ storage' = StoreAll(storage, visitCounts, promotedSites, ok)
  /\ writeFailed' = (writeFailed \/ ~ok)
  /\ UNCHANGED <<visitCounts, promotedSites, enabled, tasks, finished, tracked,
                 cacheVars, indexVars, loaderVars, headerVars, redirectVars>>

\* setEnabled(enabled)
SetEnabled(b) ==
  /\ enabled' = b
  /\ UNCHANGED <<visitCounts, promotedSites, storage, tasks, finished, tracked,
                 writeFailed, cacheVars, indexVars, loaderVars, headerVars, redirectVars>>

\* reset(): both collections are cleared, then the two keys are removed from
\* the store unless the store rejects it (logged).
Reset(ok) ==
  /\ visitCounts' = EmptyMap
  /\ promotedSites' = {}
  /\ tracked' = EmptyMap
  /\ storage' = IF ok THEN NoStorage ELSE storage
  /\ UNCHANGED <<enabled, tasks, finished, writeFailed,
                 cacheVars, indexVars, loaderVars, headerVars, redirectVars>>

\* The host is shut down without notice and started again: the script is
\* loaded anew and makes a new learner; the calls that were suspended are
\* gone and only the store is as it was.
Restart ==
  /\ visitCounts' = EmptyMap
  /\ promotedSites' = {}
  /\ enabled' = TRUE
  /\ tasks' = <<>>
  /\ finished' = NoCall
  /\ tracked' = EmptyMap
  /\ UNCHANGED <<storage, writeFailed, cacheVars, indexVars, loaderVars, headerVars, redirectVars>>

----------------------------------------------------------------------------
(* The Medium redirect rule (setupMediumRedirect and the listener of        *)
(* storage.onChanged)                                                       *)

MEDIUM_RULE_ID == 90000

\* setupMediumRedirect is started at most this many times.
MaxSetups == 3

\* A value of userSettings, as far as setupMediumRedirect reads it.  The value
\* {} that stands in for a removed key has no features.
Settings(hasFeatures, mediumRedirect, mediumRedirectTarget) ==
  [hasFeatures |-> hasFeatures, mediumRedirect |-> mediumRedirect,
   mediumRedirectTarget |-> mediumRedirectTarget]

NoSettings == Settings(FALSE, FALSE, "")

\* The settings written on the first run.
DefaultSettings == Settings(TRUE, FALSE, "freedium")

SettingsInputs ==
  {Settings(TRUE, b, t) : b \in BOOLEAN, t \in {"freedium", "scribe"}} \cup {NoSettings}

\* settings.features?.mediumRedirect === true
MediumRedirectOn(settings) == settings.hasFeatures /\ settings.mediumRedirect

\* The substitution of the rule setupMediumRedirect adds for the settings.
RedirectUrl(settings) ==
  IF settings.hasFeatures /\ settings.mediumRedirectTarget = "scribe"
  THEN "https://scribe.rip/"
  ELSE "https://freedium.cfd/"

\* The extension has loaded with the default settings and its first
\* setupMediumRedirect is over: no rule, nothing in flight.
RedirectSettled ==
  /\ userSettings = DefaultSettings
  /\ dynamicRules = EmptyMap
  /\ setups = <<>>
  /\ updates = <<>>

\* The listener of storage.onChanged for a change of userSettings in the sync
\* area: setupMediumRedirect(newValue || {}) runs up to its first await, where
\* its request to remove the rule is handed to the browser.
OnChanged(newValue) ==
  /\ Len(setups) < MaxSetups
  /\ userSettings' = newValue
  /\ setups' = Append(setups, [settings |-> newValue, pc |-> "remove", raised |-> FALSE])
  /\ updates' = Append(updates, Len(setups) + 1)
  /\ UNCHANGED <<dynamicRules, cacheVars, indexVars, loaderVars, headerVars, learnerVars>>

\* The requests in flight after the oldest one is done and invocation i has
\* handed in its request to add the rule.
AddRuleRequested(queue, i) == Append(Tail(queue), i)

\* The browser completes the oldest updateDynamicRules request and the
\* invocation that awaits it goes on: after the removal it hands in the
\* request to add the rule if the redirect is on in the settings it was
\* given, and is over otherwise; after the addition it is over.  A rule with
\* an id that is taken is refused, which the catch block logs.
UpdateDynamicRulesDone ==
  /\ updates # <<>>
  /\ LET i == Head(updates)
          call == setups[i]
     IN  IF call.pc = "remove"
         THEN /\ dynamicRules' = MapDelete(dynamicRules, MEDIUM_RULE_ID)
              /\ IF MediumRedirectOn(call.settings)
                 THEN /\ setups' = [setups EXCEPT ![i].pc = "add"]
                      /\ updates' = AddRuleRequested(updates, i)
                 ELSE /\ setups' = [setups EXCEPT ![i].pc = "done"]
                      /\ updates' = Tail(updates)
         ELSE /\ updates' = Tail(updates)
              /\ IF MEDIUM_RULE_ID \in DOMAIN dynamicRules
                 THEN /\ dynamicRules' = dynamicRules
                      /\ setups' = [setups EXCEPT ![i].pc = "done", ![i].raised = TRUE]
                 ELSE /\ dynamicRules' = MapSet(dynamicRules, MEDIUM_RULE_ID,
                                                RedirectUrl(call.settings))
                      /\ setups' = [setups EXCEPT ![i].pc = "done"]
  /\ UNCHANGED <<userSettings, cacheVars, indexVars, loaderVars, headerVars, learnerVars>>

----------------------------------------------------------------------------
(* Construction *)

\* new RegexCache(maxCacheSize)
CacheConstructed(size) ==
  /\ cache = EmptyMap
  /\ matchResults = <<>>
  /\ maxCacheSize = size
  /\ lastTest = NoTest
  /\ lastCompile = NoCompile

\* new SiteIndexes()
IndexConstructed ==
  /\ domainMap = EmptyMap
  /\ groupMap = EmptyMap
  /\ groupConfigs = EmptyMap
  /\ botUserAgents = EmptyMap
  /\ cookieRules = EmptyMap
  /\ blockRules = EmptyMap
  /\ totalSites = 0
  /\ indexedDomains = {}
  /\ lastBuild = <<>>

\* new ChunkLoader()
LoaderConstructed ==
  /\ chunkManifest = EmptyMap
  /\ siteToChunkMap = EmptyMap
  /\ loadedChunks = {}
  /\ loading = EmptyMap
  /\ loads = <<>>
  /\ calls = <<>>

\* The global instances after construction, in a page or in a worker.
Init ==
  /\ CacheConstructed(DefaultMaxCacheSize)
  /\ IndexConstructed
  /\ LoaderConstructed
  /\ hasWindow \in BOOLEAN
  /\ HeaderScriptLoaded
  /\ LearnerConstructed
  /\ RedirectSettled

Next ==
  \/ LoaderInit
  \/ \E d \in Domains, r \in RetryInputs : EnsureChunkLoaded(d, r)
  \/ \E i \in DOMAIN calls : EnsureResume(i)
  \/ \E l \in DOMAIN loads : FetchFails(l)
  \/ \E l \in DOMAIN loads : FetchSucceeds(l)
  \/ \E l \in DOMAIN loads : BackoffElapsed(l)
  \/ \E names \in PreloadInputs : PreloadChunks(names)

Spec == Init /\ [][Next]_vars

----------------------------------------------------------------------------
(* The pattern cache on its own, constructed with any bound and driven     *)
(* through test (which compiles the pattern it is handed)                  *)

CacheInit ==
  /\ \E size \in 0 .. MaxBound : CacheConstructed(size)
  /\ IndexConstructed
  /\ LoaderConstructed
  /\ hasWindow = TRUE
  /\ HeaderScriptLoaded
  /\ LearnerConstructed
  /\ RedirectSettled

CacheNext ==
  \/ \E p \in Patterns, u \in Urls : TestOp(p, u)
  \/ ClearMatchCache
  \/ ClearAll

CacheSpec == CacheInit /\ [][CacheNext]_vars

----------------------------------------------------------------------------
(* The global pattern cache driven through compile and test *)

CompileUrls == {"a", "A"}

\* The global instances after construction in a page.
PageInit ==
  /\ CacheConstructed(DefaultMaxCacheSize)
  /\ IndexConstructed
  /\ LoaderConstructed
  /\ hasWindow = TRUE
  /\ HeaderScriptLoaded
  /\ LearnerConstructed
  /\ RedirectSettled

CompileNext ==
  \/ \E p \in CompilePatterns : CompileOp(p)
  \/ \E p \in Patterns, u \in CompileUrls : TestOp(p, u)
  \/ ClearMatchCache
  \/ ClearAll

CompileSpec == PageInit /\ [][CompileNext]_vars

----------------------------------------------------------------------------
(* The global index and pattern cache: catalogs are merged, lookups are     *)
(* made, and the caches are cleared (the 'clearCache' message)             *)

IndexNext ==
  \/ \E siteConfigs \in Catalogs : BuildIndexesOp(siteConfigs)
  \/ \E d \in LookupDomains, u \in CompileUrls : ShouldBlockRequest(d, u)
  \/ \E p \in DirectPatterns, u \in CompileUrls : TestOp(p, u)
  \/ Clear
  \/ ClearAll

IndexSpec == PageInit /\ [][IndexNext]_vars

----------------------------------------------------------------------------
(* The background page: initializeBPC is run and requests have their       *)
(* headers rewritten                                                       *)

\* An entry with a referer, a synthetic address and a user agent that the
\* table of buildRules does not hold.
Wire == [Config("w.com", <<>>, "yandex", NoPattern)
           EXCEPT !.referer = "https://t.co/", !.random_ip = "all"]

HeaderCatalog == << <<"News", News>>, <<"Wire", Wire>>, <<"Mag", Mag>> >>

HeaderDomains == {"n.com", "w.com", "m.com", "other.com"}

HeaderLists ==
  { <<>>,
    <<Header("Accept", "*/*")>>,
    <<Header("USER-AGENT", "x"), Header("Accept", "*/*"), Header("Referer", "r")>>,
    <<Header("X-Forwarded-For", "1.2.3.4"), Header("user-agent", "y")>> }

\* Readings of Date.now()
Times == {0, 9, 10, 13}

HeaderNext ==
  \/ \E mobile \in BOOLEAN, pools \in [HeaderDomains -> IPPools] :
       InitializeBPC(HeaderCatalog, mobile, pools)
  \/ \E d \in HeaderDomains, headers \in HeaderLists, now \in Times :
       ApplyHeaderModifications(d, headers, now)

HeaderSpec == PageInit /\ [][HeaderNext]_vars

----------------------------------------------------------------------------
(* The usage learner: visits alone, and visits next to the other calls     *)

TrackNext ==
  \/ \E d \in LearnerDomains : TrackVisit(d)
  \/ \E i \in DOMAIN tasks, ok \in BOOLEAN : TrackResume(i, ok)

TrackSpec == PageInit /\ [][TrackNext]_vars

\* Next to the other calls the visits are those of one domain.
VisitedDomains == {"n.com"}

LearnerNext ==
  \/ \E d \in VisitedDomains : TrackVisit(d)
  \/ \E i \in DOMAIN tasks, ok \in BOOLEAN : TrackResume(i, ok)
  \/ \E ok \in BOOLEAN : InitCall(ok)
  \/ \E i \in DOMAIN tasks : InitResume(i)
  \/ \E ok \in BOOLEAN : Persist(ok)
  \/ \E b \in BOOLEAN : SetEnabled(b)

LearnerSpec == PageInit /\ [][LearnerNext]_vars

\* The learner over the sessions of the host: its calls, reset included, and
\* shutdowns without notice.
SessionNext ==
  \/ LearnerNext
  \/ \E ok \in BOOLEAN : Reset(ok)
  \/ Restart

SessionSpec == PageInit /\ [][SessionNext]_vars

----------------------------------------------------------------------------
(* The settings are changed while earlier setupMediumRedirect invocations   *)
(* may still await the browser                                             *)

RedirectNext ==
  \/ \E newValue \in SettingsInputs : OnChanged(newValue)
  \/ UpdateDynamicRulesDone

RedirectSpec == PageInit /\ [][RedirectNext]_vars

----------------------------------------------------------------------------
(* Properties of the chunk loader *)

Mapped(d) == d \in DOMAIN siteToChunkMap

\* The call appended by the step, when the step is a call of ensureChunkLoaded.
NewCall == calls'[Len(calls')]

IsCallStep == Len(calls') = Len(calls) + 1

\* C1, as stated: when two calls for domains of one partition overlap, the
\* second joining the load the first started with the default retry bound in
\* a page, the partition is fetched (importScript is called) exactly once by
\* the time both have returned.
C1_ExactlyOneFetch ==
  \A i, j \in DOMAIN calls :
    (/\ hasWindow
     /\ i < j
     /\ calls[i].exit = "started" /\ calls[j].exit = "joined"
     /\ calls[j].load = calls[i].load
     /\ loads[calls[i].load].retries = DefaultRetries
     /\ calls[i].pc = "done" /\ calls[j].pc = "done")
    => loads[calls[i].load].fetches = 1

\* Every load the loader started on behalf of ensureChunkLoaded is finished
\* before the next one of the same partition starts, a joined call waits for a
\* load an earlier call started, and a load fetches once per attempt.
C1_SharedLoad ==
  /\ \A j \in DOMAIN calls :
       calls[j].exit = "joined" =>
         \E i \in 1 .. (j - 1) :
           /\ calls[i].exit = "started"
           /\ calls[i].load = calls[j].load
           /\ loads[calls[i].load].chunk = siteToChunkMap[calls[j].domain]
  /\ \A l1, l2 \in DOMAIN loads :
       (l1 < l2 /\ loads[l1].by = "ensure" /\ loads[l2].by = "ensure"
          /\ loads[l1].chunk = loads[l2].chunk) => loads[l1].pc = "done"
  /\ \A l \in DOMAIN loads :
       /\ loads[l].fetches <= loads[l].retries
       /\ loads[l].fetches <= loads[l].attempt + 1
       /\ (loads[l].result = "true" /\ loads[l].attempt = 0) => loads[l].fetches = 1

\* A call made for a domain of a partition that is neither indexed nor loaded,
\* while the call that started the partition's load still waits for it, starts
\* no load and waits for that same load.
C1_JoinStep ==
  \A i \in DOMAIN calls :
    (/\ IsCallStep
     /\ calls[i].pc = "await" /\ calls[i].exit = "started"
     /\ NewCall.domain \notin indexedDomains
     /\ Mapped(NewCall.domain)
     /\ siteToChunkMap[NewCall.domain] = loads[calls[i].load].chunk
     /\ siteToChunkMap[NewCall.domain] \notin loadedChunks)
    => (/\ loads' = loads
        /\ loading' = loading
        /\ NewCall.pc = "await"
        /\ NewCall.load = calls[i].load)

\* C1, amended: two overlapping ensureChunkLoaded calls for domains of one
\* partition that is neither loaded nor loading cause exactly one load of that
\* partition; the second caller starts no load and no fetch of its own and
\* awaits the promise stored by the first; the one load fetches once per
\* attempt, exactly once when its first attempt succeeds.
C1_Coalesced == []C1_SharedLoad /\ [][C1_JoinStep]_vars

\* Two calls shared one load and both have returned true.
C1_Witness ==
  \E i, j \in DOMAIN calls :
    /\ i < j
    /\ calls[i].exit = "started" /\ calls[j].exit = "joined"
    /\ calls[j].load = calls[i].load
    /\ calls[i].domain # calls[j].domain
    /\ calls[i].result = "true" /\ calls[j].result = "true"

\* C2: when every fetch attempt of a partition has failed, ensureChunkLoaded
\* for a domain the manifest knows still returns true, the full catalog having
\* been loaded and every partition marked loaded.
C2_FallbackReturnsTrue ==
  \A i \in DOMAIN calls :
    (/\ calls[i].pc = "done"
     /\ calls[i].load # 0
     /\ hasWindow
     /\ loads[calls[i].load].retries > 0
     /\ loads[calls[i].load].fetches = loads[calls[i].load].retries
     /\ loads[calls[i].load].merges = 0)
    => (/\ calls[i].result = "true"
        /\ DOMAIN chunkManifest \subseteq loadedChunks)

\* C3: whenever ensureChunkLoaded(domain) has returned true, the index
\* contains the domain.
C3_TrueImpliesIndexed ==
  \A i \in DOMAIN calls :
    (calls[i].pc = "done" /\ calls[i].result = "true")
      => calls[i].domain \in indexedDomains

\* The number of merges of the partition's entries into the index so far.
RECURSIVE MergeCount(_, _)
MergeCount(c, n) ==
  IF n = 0 THEN 0
  ELSE MergeCount(c, n - 1) + (IF loads[n].chunk = c THEN loads[n].merges ELSE 0)

ChunkNames == {loads[l].chunk : l \in DOMAIN loads}

\* C4: at every moment at most one fetch of a given partition is in flight,
\* and no partition's entries are merged into the index twice.
C4_OneFetchInFlight ==
  \A c \in ChunkNames :
    /\ Cardinality({l \in DOMAIN loads : loads[l].chunk = c /\ loads[l].pc = "fetching"}) <= 1
    /\ MergeCount(c, Len(loads)) <= 1

\* The number of failed attempts of a load that were followed by a wait.
WaitedAttempts(ld) ==
  IF ld.pc = "fetching" THEN ld.attempt
  ELSE IF ld.pc = "backoff" THEN ld.attempt + 1
  ELSE IF ld.result = "true" THEN ld.attempt
  ELSE IF ld.fetches = 0 THEN 0
  ELSE ld.retries - 1

\* C5: one load with retry bound r makes at most r fetch attempts and then
\* ends; after the failed attempt k (from 0) that is not the last it waits
\* 100 * 2^k ms, and it does not wait after the last attempt.
C5_BoundedRetries ==
  \A l \in DOMAIN loads :
    /\ loads[l].fetches <= loads[l].retries
    /\ loads[l].pc # "done" => loads[l].attempt < loads[l].retries
    /\ loads[l].pc = "backoff" => loads[l].attempt < loads[l].retries - 1
    /\ (loads[l].pc = "done" /\ loads[l].result = "false" /\ loads[l].fetches > 0)
         => loads[l].fetches = loads[l].retries
    /\ Len(loads[l].waits) = WaitedAttempts(loads[l])
    /\ \A k \in DOMAIN loads[l].waits : loads[l].waits[k] = 100 * 2 ^ (k - 1)

\* A load with the default bound has failed three times, waiting 100 and 200 ms.
C5_Witness ==
  \E l \in DOMAIN loads :
    /\ loads[l].retries = 3
    /\ loads[l].pc = "done" /\ loads[l].result = "false"
    /\ loads[l].fetches = 3
    /\ loads[l].waits = <<100, 200>>

\* C6: ensureChunkLoaded never raises: whatever fails while loading, a load
\* and the calls that wait for it end with a boolean.
C6_NeverRaises ==
  /\ \A l \in DOMAIN loads : loads[l].pc = "done" => loads[l].result \in {"true", "false"}
  /\ \A i \in DOMAIN calls : calls[i].pc = "done" => calls[i].result \in {"true", "false"}

\* A call has returned false after every attempt of its load failed, once in
\* the fetch and once in the merge.
C6_Witness ==
  \E i \in DOMAIN calls :
    /\ calls[i].pc = "done" /\ calls[i].result = "false"
    /\ calls[i].load # 0
    /\ loads[calls[i].load].fetches = 3
    /\ loads[calls[i].load].chunk \in loadedChunks

\* The loader, the index and the caches are as they were before the step.
C7_Frame ==
  UNCHANGED <<cacheVars, indexVars, hasWindow, chunkManifest, siteToChunkMap,
              loadedChunks, loading, loads>>

\* C7: an ensureChunkLoaded call that exits early fetches nothing and changes
\* no loader state: it returns true for an indexed domain, false for a domain
\* mapped to no partition, true for a domain whose partition is marked loaded.
C7_EarlyExitStep ==
  IsCallStep =>
    /\ (NewCall.domain \in indexedDomains)
         => (C7_Frame /\ NewCall.pc = "done" /\ NewCall.result = "true")
    /\ (NewCall.domain \notin indexedDomains /\ ~Mapped(NewCall.domain))
         => (C7_Frame /\ NewCall.pc = "done" /\ NewCall.result = "false")
    /\ (/\ NewCall.domain \notin indexedDomains
        /\ Mapped(NewCall.domain)
        /\ siteToChunkMap[NewCall.domain] \in loadedChunks)
         => (C7_Frame /\ NewCall.pc = "done" /\ NewCall.result = "true")

C7_EarlyExit == [][C7_EarlyExitStep]_vars

\* One call found its domain mapped to no partition and another found its
\* partition marked loaded without the domain being indexed.
C7_Witness ==
  \E i, j \in DOMAIN calls :
    /\ calls[i].exit = "unmapped" /\ calls[i].result = "false"
    /\ calls[j].exit = "loaded" /\ calls[j].result = "true"

\* C8: a partition that is marked loaded has had the entries of its fetch
\* merged into the index.
C8_LoadedImpliesMerged ==
  \A c \in loadedChunks : MergeCount(c, Len(loads)) >= 1

----------------------------------------------------------------------------
(* Properties of the pattern cache *)

\* C9: in every state of the cache, test(pattern, url) returns what the
\* matcher compiled for the pattern answers when it is evaluated on the URL
\* directly; a pattern without a matcher matches nothing.
C9_TestAgreesWithMatcher ==
  lastTest.called =>
    lastTest.ret = (IF lastTest.compiled = Null THEN FALSE
                    ELSE RegExpTest(lastTest.compiled, lastTest.url))

\* C10: after an insertion by test, the result cache holds at most
\* maxCacheSize entries, whatever bound the cache was constructed with.
C10_CacheWithinBound ==
  lastTest.inserted => Len(matchResults) <= maxCacheSize

\* A step that inserts a result: the new key goes last, and when the cache
\* was full the entries kept are all but the one inserted earliest, in order.
C11_InsertStep ==
  (matchResults' # matchResults /\ matchResults' # <<>>) =>
    LET n == Len(matchResults')
        full == Len(matchResults) >= maxCacheSize /\ Len(matchResults) > 0
    IN  /\ ~ResultHas(matchResults, matchResults'[n][1])
        /\ lastTest'.inserted
        /\ lastTest'.evicted = (IF full THEN matchResults[1][1] ELSE "")
        /\ SubSeq(matchResults', 1, n - 1) =
             (IF full THEN SubSeq(matchResults, 2, Len(matchResults)) ELSE matchResults)

\* A test answered from the result cache leaves every entry where it was.
C11_HitStep ==
  (/\ lastTest'.called
   /\ lastTest'.compiled # Null
   /\ ~lastTest'.inserted
   /\ matchResults' # <<>>) =>
    matchResults' = matchResults

SamePattern(p, q) == p.source = q.source /\ p.flags = q.flags

\* C12: a compile call that follows a compile call with the same pattern
\* source and flags, with no clearAll between the two, returns the identical
\* matcher object and leaves the compiled-pattern cache unchanged.
C12_CompileIdempotent ==
  [][\A p \in CompilePatterns :
       (CompileOp(p) /\ lastCompile.called /\ SamePattern(p, lastCompile.pattern)) =>
         (lastCompile'.ret = lastCompile.ret /\ cache' = cache)]_vars

\* compile was handed a second RegExp object /a/ and returned the first one.
C12_Witness ==
  /\ lastCompile.called
  /\ lastCompile.pattern = RegExpObject("a", "", 2)
  /\ lastCompile.ret = MatcherOf(RegExpObject("a", "", 1))

\* Every compiled matcher is still cached, under its key, after the step.
CompiledKept == \A k \in DOMAIN cache : k \in DOMAIN cache' /\ cache'[k] = cache[k]

\* C14: clearMatchCache empties the result cache and leaves the compiled
\* matchers as they were; a test that evicts a result removes no compiled
\* matcher; and a step that removes a compiled matcher is a clearAll, which
\* empties both caches.
C14_Frame ==
  [][/\ ClearMatchCache => (matchResults' = <<>> /\ cache' = cache)
     /\ (lastTest'.evicted # "" /\ matchResults' # matchResults /\ matchResults' # <<>>)
          => CompiledKept
     /\ ~CompiledKept => (ClearAll /\ cache' = EmptyMap /\ matchResults' = <<>>)]_vars

\* clearMatchCache ran after a test that evicted a result, and the matchers
\* compiled so far are still cached.
C14_Witness ==
  /\ matchResults = <<>>
  /\ lastTest.evicted # ""
  /\ Cardinality(DOMAIN cache) >= 2

----------------------------------------------------------------------------
(* Properties of the index *)

\* C13: a pattern source that does not compile is never stored by compile,
\* test with it returns false and inserts no result, and buildIndexes skips
\* it: the entry that declares it is registered with its other features and
\* without a block rule, and the entries after it are indexed.
C13_InvalidPatternSkipped ==
  /\ Bad.block_regex.source \notin DOMAIN cache
  /\ \A k \in DOMAIN cache : cache[k].source # Bad.block_regex.source
  /\ \A i \in DOMAIN matchResults, u \in Urls :
       matchResults[i][1] # Bad.block_regex.source \o "::" \o u
  /\ (lastTest.called /\ lastTest.pattern = Bad.block_regex) =>
       (~lastTest.ret /\ ~lastTest.inserted /\ lastTest.compiled = Null)
  /\ HasDomain(Bad.domain) =>
       /\ GetBlockRules(Bad.domain) = <<>>
       /\ GetSiteConfig(Bad.domain) = Bad
       /\ CookieRuleOf(cookieRules, Bad.domain).type = "remove"
       /\ HasDomain(Mag.domain)
       /\ GetBlockRules(Mag.domain) # <<>>

\* test was called with the pattern that does not compile after a catalog
\* with an entry declaring it was indexed.
C13_Witness ==
  /\ lastTest.called
  /\ lastTest.pattern = Bad.block_regex
  /\ HasDomain(Bad.domain)

\* C15: clearing the caches (the 'clearCache' message runs clearAll) changes
\* no answer: for every domain and URL, shouldBlockRequest returns after the
\* clear what it would have returned without it.
C15_ClearCacheSafe ==
  [][ClearAll =>
       \A d \in IndexDomains, u \in Urls : ShouldBlockNext(d, u) = ShouldBlock(d, u)]_vars

\* A step of buildIndexes: it registers the sites of a catalog.
IsBuildStep == lastBuild' # <<>> /\ totalSites' > totalSites

C17_IndexedResolves == \A d \in indexedDomains : GetSiteConfig(d) # NoConfig

\* A step other than clear keeps every indexed domain indexed.
C17_KeepsDomains == ~Clear => \A d \in indexedDomains : d \in indexedDomains'

\* C17: merges are additive: whatever catalogs buildIndexes is given after a
\* first one, and as long as the index is not cleared, every domain that was
\* indexed stays indexed and resolves to a configuration entry.
C17_MergesAdditive == []C17_IndexedResolves /\ [][C17_KeepsDomains]_vars

\* The catalog of groups was merged after the catalog of direct entries, and
\* the domains of both resolve.
C17_Witness ==
  /\ lastBuild = GroupCatalog
  /\ GetSiteConfig(Mag.domain) = Mag
  /\ GetSiteConfig("g2.com") = Syndicate
  /\ totalSites > 4

\* The members of the group an entry declares.
Members(config) ==
  IF config.group = <<>> THEN {} ELSE {config.group[1][i] : i \in DOMAIN config.group[1]}

\* Whether the entry is authoring metadata: its domain marker begins with '#'.
IsMetadata(config) == config.domain # "" /\ StartsWithHash(config.domain)

DeclaresCookies(config) ==
  \/ config.allow_cookies
  \/ config.remove_cookies
  \/ config.remove_cookies_select_hold # ""
  \/ config.remove_cookies_select_drop # ""

\* C20: for every registered domain, direct or member of a group, whose entry
\* declares a user-agent override, a cookie directive or a block pattern
\* (one that compiles), the feature table holds that feature for the domain.
C20_FeaturesIndexed ==
  \A d \in indexedDomains :
    LET config == GetSiteConfig(d)
    IN  /\ config.useragent # "" =>
             (d \in DOMAIN botUserAgents /\ botUserAgents[d] = config.useragent)
        /\ DeclaresCookies(config) => d \in DOMAIN cookieRules
        /\ (config.block_regex.kind # "none" /\ config.block_regex # Bad.block_regex) =>
             GetBlockRules(d) # <<>>

\* C21: shouldBlockRequest(domain, url) returns false for a domain without
\* block rules, and otherwise true exactly when one of the domain's compiled
\* block patterns matches the URL.
C21_BlockIffSomeRuleMatches ==
  \A d \in IndexDomains, u \in Urls :
    ShouldBlock(d, u) =
      (\E i \in DOMAIN GetBlockRules(d) : RegExpTest(GetBlockRules(d)[i], u))

\* C22: every domain of the group mapping has its entry name in the
\* shared-entry mapping, after any sequence of buildIndexes and clear calls.
C22_GroupMapHasConfig ==
  \A d \in DOMAIN groupMap : groupMap[d] \in DOMAIN groupConfigs

\* The catalog of groups was merged into an index that was cleared after the
\* catalog of direct entries had been merged (its matchers are still cached).
C22_Witness ==
  /\ lastBuild = GroupCatalog
  /\ DOMAIN groupMap # {}
  /\ DOMAIN domainMap = {}
  /\ "ai" \in DOMAIN cache
  /\ cache["ai"] = MatcherOf(Mag.block_regex)


\* The entry declares a header feature: a user agent, a referer or a
\* synthetic address.
DeclaresHeaderFeature(config) ==
  config.useragent # "" \/ config.referer # "" \/ config.random_ip # ""

\* C23: the header rules follow the index: whenever buildIndexes has run, the
\* merge of a loaded chunk included, every indexed domain whose entry declares
\* a user agent, a referer or a synthetic address has a header rule.
C23_RulesFollowIndex ==
  \A d \in indexedDomains :
    (GetSiteConfig(d) # NoConfig /\ DeclaresHeaderFeature(GetSiteConfig(d)))
      => HasRules(d)

\* C24: applyHeaders hands back the headers it was given, the same ones in
\* the same order, for every domain that has no header rule.
C24_NoRuleUnchanged ==
  (lastApply.called /\ ~HasRules(lastApply.domain))
    => (~lastApply.raised /\ lastApply.result = lastApply.headers)

\* The rule buildRules computes for the entry of d, whatever the pool.
RuleFor(d) == BuildRule(GetSiteConfig(d), FALSE, <<<<0, 0, 0, 0>>>>)

\* The names of the headers the features of a rule stand for, in lower case.
FeatureNames(rule) ==
  (IF rule.userAgent # "" THEN {"user-agent"} ELSE {})
    \cup (IF rule.referer # "" THEN {"referer"} ELSE {})
    \cup (IF rule.randomIP # <<>> THEN {"x-forwarded-for"} ELSE {})

\* The last call was made for a domain the rules were built for: it came
\* after initializeBPC, and buildRules computes a rule for the entry of the
\* domain.
Ruled ==
  /\ lastApply.called /\ lastApply.afterInit
  /\ lastApply.domain \in indexedDomains
  /\ RuleFor(lastApply.domain) # NoRule

\* The headers of hs whose name, in lower case, is in names / is not.
Named(hs, names) ==
  LET In(h) == HeaderLower(h.name) \in names IN SelectSeq(hs, In)

Others(hs, names) ==
  LET Out(h) == HeaderLower(h.name) \notin names IN SelectSeq(hs, Out)

\* C25: for a domain with a rule applyHeaders returns a list in which the
\* input headers named user-agent, referer or x-forwarded-for (in any case)
\* are gone where the rule has the feature, every other input header is kept
\* in order, and exactly one header is added for each feature of the rule.
C25_RuleApplied ==
  Ruled
    => LET names == FeatureNames(RuleFor(lastApply.domain))
       IN  /\ ~lastApply.raised
           /\ Others(lastApply.result, names) = Others(lastApply.headers, names)
           /\ Len(Named(lastApply.result, names)) = Cardinality(names)
           /\ \A n \in names : Len(Named(lastApply.result, {n})) = 1

\* C26: applyHeaders is pure: a call returns, leaves the engine, the index
\* and the caches as they were, and what it returns is determined by the
\* rules, the domain, the headers and the millisecond of the call.
C26_Pure ==
  [][(lastApply'.called /\ lastApply' # lastApply)
       => /\ ~lastApply'.raised
          /\ UNCHANGED <<headerEngine, bpcInitialized, indexVars, cacheVars>>
          /\ lastApply'.result =
               ApplyHeaders(headerEngine.rules, lastApply'.domain,
                            lastApply'.headers, lastApply'.now)]_vars

\* C27: the pool of synthetic addresses of a domain has exactly 10 entries,
\* and a call at time t carries the entry at index t mod 10.
C27_PoolOfTen ==
  (Ruled /\ RuleFor(lastApply.domain).randomIP # <<>>)
    => /\ HasRules(lastApply.domain)
       /\ Len(headerEngine.rules[lastApply.domain].randomIP) = 10
       /\ ~lastApply.raised
       /\ Named(lastApply.result, {"x-forwarded-for"}) =
            <<Header("X-Forwarded-For",
                     Dotted(headerEngine.rules[lastApply.domain]
                              .randomIP[(lastApply.now % 10) + 1]))>>

\* A domain is promoted exactly when its count has reached the threshold.
C28_PromotedIffReached ==
  \A d \in LearnerDomains :
    IsPromoted(d) <=> (GetVisitCount(d) >= DefaultPromotionThreshold)

\* A domain enters the promoted set on the very visit that takes its count
\* to the threshold, and on no other step.
C28_EntersOnThresholdVisit ==
  \A d \in LearnerDomains :
    (d \notin promotedSites /\ d \in promotedSites')
      <=> /\ CountIn(visitCounts, d) = DefaultPromotionThreshold - 1
          /\ CountIn(visitCounts', d) = DefaultPromotionThreshold

\* C28: on a fresh learner with learning enabled, after any sequence of
\* trackVisit calls isPromoted(d) is true exactly when getVisitCount(d) has
\* reached the promotion threshold (5), and d enters the promoted set on the
\* visit that makes its count reach the threshold.
C28_PromotedAtThreshold ==
  []C28_PromotedIffReached /\ [][C28_EntersOnThresholdVisit]_vars

\* One domain has just reached the threshold and is promoted while the
\* other, one visit short of it, is not; the store refused the promotion.
C28_Witness ==
  /\ GetVisitCount("n.com") = DefaultPromotionThreshold
  /\ IsPromoted("n.com")
  /\ GetVisitCount("m.com") = DefaultPromotionThreshold - 1
  /\ ~IsPromoted("m.com")
  /\ ~storage.hasPromotedSites

\* C29: the promoted set is append-only under trackVisit, init, persist and
\* setEnabled, however they interleave: a domain that is promoted stays
\* promoted.
C29_PromotedAppendOnly ==
  [][\A d \in LearnerDomains : d \in promotedSites => d \in promotedSites']_vars

\* C30: the visit count of a domain never decreases under trackVisit, init,
\* persist and setEnabled, however they interleave.
C30_CountNeverDecreases ==
  [][\A d \in LearnerDomains :
       CountIn(visitCounts', d) >= CountIn(visitCounts, d)]_vars

\* The count of d in the usage data the store holds.
StoredCount(d) == CountIn(storage.usageData, d)

\* A trackVisit call that counted has called persist exactly when the count
\* it made is a multiple of 10: the calls that are over, and the ones still
\* suspended at the write of persist.
C31_PersistOnTenth ==
  /\ (finished.op = "trackVisit" /\ finished.counted)
       => (finished.persisted <=> finished.count % 10 = 0)
  /\ \A i \in DOMAIN tasks :
       tasks[i].op = "trackVisit" =>
         /\ tasks[i].pc = "persist" => tasks[i].count % 10 = 0
         /\ tasks[i].count % 10 = 0 => tasks[i].pc = "persist" \/ tasks[i].promoted
         /\ tasks[i].persisted =>
              tasks[i].data.hasUsageData /\ tasks[i].data.hasPromotedSites

\* No count in memory is more than 9 ahead of the stored one.
AtMostNineBehind ==
  \A d \in LearnerDomains : GetVisitCount(d) - StoredCount(d) <= 9

\* C31 as stated: trackVisit persists exactly when the new count is a
\* multiple of 10, and as long as no write was rejected the count of every
\* domain is at most 9 ahead of its stored count at every moment.
C31_NeverTenBehind ==
  /\ C31_PersistOnTenth
  /\ ~writeFailed => AtMostNineBehind

\* C31, amended: trackVisit persists the counts and the promoted set exactly
\* when the new count is a multiple of 10, and as long as no write was
\* rejected the count of every domain is at most 9 ahead of its stored count
\* whenever no write of persist is in flight.
C31_PersistEveryTenth ==
  /\ C31_PersistOnTenth
  /\ (~writeFailed /\ \A i \in DOMAIN tasks : tasks[i].pc # "persist")
       => AtMostNineBehind

\* The tenth visit of one domain was persisted, and since then the other
\* domain has come to be nine visits ahead of the store.
C31_Witness ==
  /\ ~writeFailed /\ tasks = <<>>
  /\ storage.hasUsageData /\ StoredCount("n.com") = 10
  /\ GetVisitCount("m.com") = 9 /\ StoredCount("m.com") = 0

\* C32: a rejected write is never escalated: a trackVisit call during which
\* the write of promoteToCore or of persist was rejected is over without
\* having thrown, and the count it made and the promotion it made are still
\* in memory.
C32_FailedWriteNotEscalated ==
  (finished.op = "trackVisit" /\ finished.failed)
    => /\ ~finished.raised
       /\ GetVisitCount(finished.domain) >= finished.count
       /\ finished.promoted => IsPromoted(finished.domain)

\* The visit that promoted a domain is over, the store rejected the write of
\* the promotion, and the domain is promoted with its five visits.
C32_Witness ==
  /\ finished.op = "trackVisit" /\ finished.failed /\ finished.promoted
  /\ ~storage.hasPromotedSites
  /\ IsPromoted(finished.domain)
  /\ GetVisitCount(finished.domain) = DefaultPromotionThreshold

\* C33: no visit is lost: with learning enabled and neither init nor reset in
\* between, the count of a domain has grown by exactly the number of
\* trackVisit calls made for it, calls started while earlier ones are still
\* suspended at their writes included.
C33_EveryVisitCounted ==
  \A d \in LearnerDomains : GetVisitCount(d) = TrackedIn(tracked, d)

\* The visit that promoted a domain is still suspended at its write, and two
\* more visits of the domain and one of the other were counted meanwhile.
C33_Witness ==
  /\ tasks # <<>>
  /\ tasks[1].op = "trackVisit" /\ tasks[1].pc = "promote"
  /\ tasks[1].domain = "n.com" /\ tasks[1].count = DefaultPromotionThreshold
  /\ GetVisitCount("n.com") = DefaultPromotionThreshold + 2
  /\ TrackedIn(tracked, "n.com") = DefaultPromotionThreshold + 2
  /\ GetVisitCount("m.com") = 1

\* C38: in every state of the learner, the one init restores after a
\* shutdown without notice included, every promoted domain has a visit count
\* of at least the promotion threshold.
C38_PromotedHaveThreshold ==
  \A d \in promotedSites : GetVisitCount(d) >= DefaultPromotionThreshold

\* C34: when an ensureChunkLoaded call that started a load is over, with
\* either result, the loading map holds no entry for the partition; when the
\* result is false the partition is not marked loaded either, so that a
\* later call for the domain starts a new sequence of fetches.
C34_FailedLoadLeavesNoTrace ==
  [][\A i \in DOMAIN calls :
       (calls[i].pc = "await" /\ calls'[i].pc = "done" /\ calls[i].exit = "started")
         => /\ loads[calls[i].load].chunk \notin DOMAIN loading'
            /\ calls'[i].result = "false"
                 => loads[calls[i].load].chunk \notin loadedChunks']_vars

\* C35: two patterns that differ in source or flags, strings or RegExp
\* objects, are never given the same compiled matcher by compile: a compile
\* call that follows one for a different pattern returns another matcher.
C35_DistinctPatternsDistinctMatchers ==
  [][(/\ lastCompile.called /\ lastCompile'.called
      /\ ~SamePattern(lastCompile.pattern, lastCompile'.pattern)
      /\ lastCompile.ret # Null /\ lastCompile'.ret # Null)
       => lastCompile'.ret # lastCompile.ret]_vars

\* C36: in every state of the index, whatever catalogs were merged and however
\* often it was cleared, hasDomain(d) is true exactly when getSiteConfig(d)
\* returns an entry.
C36_HasDomainIffConfig ==
  \A d \in IndexDomains : HasDomain(d) <=> GetSiteConfig(d) # NoConfig

\* The catalog of groups alone is merged: a member of a
\* registered group is indexed and resolves, while a member of the metadata
\* group and a domain of the other catalog are neither.
C36_Witness ==
  /\ lastBuild = GroupCatalog
  /\ HasDomain("g1.com") /\ GetSiteConfig("g1.com") = Syndicate
  /\ ~HasDomain("c1.com") /\ GetSiteConfig("c1.com") = NoConfig
  /\ ~HasDomain(News.domain) /\ GetSiteConfig(News.domain) = NoConfig
  /\ cache # EmptyMap

\* C37: a buildIndexes call with the catalog the call before it was given
\* leaves the whole index as the first call left it: the maps, the list of
\* compiled block patterns of every domain and totalSites are unchanged.  (A
\* step that keeps the last catalog is such a call or a lookup.)
C37_RebuildSameState ==
  [][(lastBuild # <<>> /\ lastBuild' = lastBuild)
       => /\ domainMap' = domainMap
          /\ groupMap' = groupMap
          /\ groupConfigs' = groupConfigs
          /\ botUserAgents' = botUserAgents
          /\ cookieRules' = cookieRules
          /\ indexedDomains' = indexedDomains
          /\ \A d \in IndexDomains : Len(GetBlockRules(d))' = Len(GetBlockRules(d))
          /\ totalSites' = totalSites]_vars

\* C39: once every setupMediumRedirect invocation that was started is over,
\* whatever settings changes arrived and whenever, the Medium redirect rule
\* exists exactly when the most recent settings have mediumRedirect on.
C39_RuleFollowsLatestSettings ==
  (setups # <<>> /\ updates = <<>>)
    => (MEDIUM_RULE_ID \in DOMAIN dynamicRules <=> MediumRedirectOn(userSettings))

====
